---- MODULE Spec2Model ----
(***************************************************************************)
(* Model of the argument-parsing framework of src/compiler/args.rs:        *)
(* option descriptors (ArgInfo), the prefix-aware binary search over a     *)
(* sorted table (bsearch / search), the per-descriptor processing          *)
(* (ArgInfo::process), the stream parser (ArgsIter) and the re-emission of *)
(* parsed arguments (normalize, IntoIter); and of the S3 storage adapter of *)
(* src/cache/s3.rs (normalize_key, get, finish_put).                       *)
(*                                                                         *)
(* Strings are sequences of bytes (45 '-', 61 '=', 97 'a', 255 a byte that *)
(* is not valid UTF-8).  Option<T> is the empty sequence (None) or a       *)
(* one-element sequence (Some).                                            *)
(***************************************************************************)
EXTENDS Naturals, Sequences, FiniteSets

VARIABLES
    debug,      \* build profile: TRUE iff debug_assertions is on
    arg_info,   \* ArgsIter.arg_info: <<layer>> (a slice) or <<layer, layer>> (a pair)
    input,      \* the token sequence the `arguments` iterator was created over
    arguments,  \* ArgsIter.arguments: the tokens the iterator has not yielded yet
    results,    \* the items ArgsIter::next has returned so far, in order
    consumed,   \* for each returned item, how many tokens the pull took from `arguments`
    pc,         \* "run" | "done" | "panic" for the parser; "call" | "returned" for a unit call
    call,       \* the unit-level call under way (search or process) and its inputs
    ret,        \* the value that call returned
    iter,       \* an Argument and, once into_iter was called, IntoIter { arg, emitted }
    pulled,     \* what the successive calls of IntoIter::next returned, in order
    normalized, \* the calls of Argument::normalize so far: preference, self, result
    bucket,     \* the S3 bucket: the objects stored, by path
    written,    \* for each key, the path and data of its last successful finish_put
    cache,      \* when the last call was S3Cache::get: its key, the path it asked
                \* the backend for and the Cache it returned; <<>> otherwise
    s3cache,    \* the S3Cache: its region and the name of its bucket
    writers,    \* the CacheWrite each caller holds, got from start_put and written to
    put,        \* when the last call was start_put or finish_put: what it was
                \* handed, what it sent to the backend and what it returned
    creator,    \* the Arc<Mutex<MockCommandCreator>>: the queued children, whether
                \* the mutex is locked and whether it is poisoned
    threads,    \* where each thread using the creator is
    commands,   \* the MockCommands made by new_command, in the order of the calls,
                \* with what spawn and the child's methods returned
    queued,     \* every result queued so far, in the order of the calls
    invoked     \* the queued closures that have been called

emit_vars == <<iter, pulled, normalized>>
s3_vars == <<bucket, written, cache, s3cache, writers, put>>
mock_vars == <<creator, threads, commands, queued, invoked>>
vars == <<debug, arg_info, input, arguments, results, consumed, pc, call, ret,
          iter, pulled, normalized, bucket, written, cache, s3cache, writers, put,
          creator, threads, commands, queued, invoked>>

-----------------------------------------------------------------------------
(* Bounds *)

\* longest input token sequence handed to the stream parser
MaxArgs == 2
\* most calls of Argument::normalize on one argument
MaxNormalize == 2
\* most calls of IntoIter::next on one IntoIter
MaxPulls == 4
\* most objects in the S3 bucket
MaxObjects == 2
\* most descriptors in a single-slice table handed to search
MaxTable == 3

-----------------------------------------------------------------------------
(* Strings *)

None == <<>>
Some(x) == <<x>>

starts_with(arg, s) ==
    Len(arg) >= Len(s) /\ SubSeq(arg, 1, Len(s)) = s

\* u8::cmp
ByteCmp(x, y) ==
    IF x < y THEN "Less" ELSE IF x > y THEN "Greater" ELSE "Equal"

\* str::cmp: byte-lexicographic order of a against b
RECURSIVE StrCmp(_, _)
StrCmp(a, b) ==
    IF a = <<>> THEN (IF b = <<>> THEN "Equal" ELSE "Less")
    ELSE IF b = <<>> THEN "Greater"
    ELSE IF Head(a) # Head(b) THEN ByteCmp(Head(a), Head(b))
    ELSE StrCmp(Tail(a), Tail(b))

\* OsStr::to_string_lossy: every byte that is not valid UTF-8 (here: 255, which
\* never is) becomes U+FFFD, whose UTF-8 encoding is EF BF BD
RECURSIVE to_string_lossy(_)
to_string_lossy(arg) ==
    IF arg = <<>> THEN <<>>
    ELSE (IF Head(arg) >= 128 THEN <<239, 191, 189>> ELSE <<Head(arg)>>)
         \o to_string_lossy(Tail(arg))

IsUtf8(arg) == \A i \in 1..Len(arg) : arg[i] < 128

-----------------------------------------------------------------------------
(* Values, dispositions, descriptors, parsed arguments *)

Separated == [tag |-> "Separated", d |-> None]
CanBeConcatenated(d) == [tag |-> "CanBeConcatenated", d |-> d]
CanBeSeparated(d) == [tag |-> "CanBeSeparated", d |-> d]
Concatenated(d) == [tag |-> "Concatenated", d |-> d]
NoDisposition == [tag |-> "none", d |-> None]

\* FromArg::process mapped into the variant: the converters of this file
\* (OsString, PathBuf) keep the bytes and never fail
create(variant, a) == [variant |-> variant, data |-> a]
\* a converter supplied by the caller may return Err (ArgError has the one
\* variant UnexpectedEndOfArgs): the variant "FooStrict" stands for a type
\* whose FromArg::process refuses the value "a"
Rejects(variant, a) == variant = "FooStrict" /\ a = <<97>>
\* IntoArg::into_arg
into_arg(v) == v.data
NoValue == [variant |-> "none", data |-> <<>>]

ArgInfoFlag(s, variant) ==
    [kind |-> "Flag", s |-> s, create |-> variant, disp |-> NoDisposition]
ArgInfoTakeArg(s, variant, disp) ==
    [kind |-> "TakeArg", s |-> s, create |-> variant, disp |-> disp]

Raw(s) == [kind |-> "Raw", s |-> s, v |-> NoValue, disp |-> NoDisposition]
UnknownFlag(s) == [kind |-> "UnknownFlag", s |-> s, v |-> NoValue, disp |-> NoDisposition]
Flag(s, v) == [kind |-> "Flag", s |-> s, v |-> v, disp |-> NoDisposition]
WithValue(s, v, disp) == [kind |-> "WithValue", s |-> s, v |-> v, disp |-> disp]

\* ArgResult<Argument<T>>, plus the outcome "Panic" of a call that unwinds
Ok(a, called) == [res |-> "Ok", arg |-> a, called |-> called]
Err(called) == [res |-> "Err", arg |-> Raw(<<>>), called |-> called]
Panic(called) == [res |-> "Panic", arg |-> Raw(<<>>), called |-> called]

-----------------------------------------------------------------------------
(* ArgInfo *)

flag_str(info) == info.s

\* cmp comparing the delimiter to the byte instead of the byte to the delimiter
cmp_reversed(info, arg) ==
    IF /\ info.kind = "TakeArg"
       /\ info.disp.tag \in {"CanBeSeparated", "Concatenated"}
       /\ info.disp.d = None
       /\ starts_with(arg, info.s)
    THEN "Equal"
    ELSE IF /\ info.kind = "TakeArg"
            /\ info.disp.tag \in {"CanBeSeparated", "Concatenated"}
            /\ info.disp.d # None
            /\ Len(arg) > Len(info.s)
            /\ starts_with(arg, info.s)
    THEN ByteCmp(info.disp.d[1], arg[Len(info.s) + 1])
    ELSE StrCmp(flag_str(info), arg)

cmp(info, arg) ==
    IF /\ info.kind = "TakeArg"
       /\ info.disp.tag \in {"CanBeSeparated", "Concatenated"}
       /\ info.disp.d = None
       /\ starts_with(arg, info.s)
    THEN "Equal"
    ELSE IF /\ info.kind = "TakeArg"
            /\ info.disp.tag \in {"CanBeSeparated", "Concatenated"}
            /\ info.disp.d # None
            /\ Len(arg) > Len(info.s)
            /\ starts_with(arg, info.s)
    THEN ByteCmp(arg[Len(info.s) + 1], info.disp.d[1])
    ELSE StrCmp(flag_str(info), arg)

\* arg[len..]: the slice panics when len is past the end
SliceFrom(arg, len) == SubSeq(arg, len + 1, Len(arg))

\* the promotion with the two recorded dispositions exchanged
promote_swapped(info, r) ==
    LET s == info.s
        d == info.disp.d
    IN
    IF r.res = "Err" /\ d = None
        THEN IF Rejects(info.create, <<>>) THEN Err(r.called)
             ELSE Ok(WithValue(s, create(info.create, <<>>), Concatenated(d)), r.called)
    ELSE IF r.res = "Ok" /\ r.arg.kind = "WithValue" /\ r.arg.disp.tag = "Concatenated"
        THEN Ok(WithValue(r.arg.s, r.arg.v, CanBeConcatenated(r.arg.disp.d)), r.called)
    ELSE IF r.res = "Ok" /\ r.arg.kind = "WithValue" /\ r.arg.disp.tag = "Separated"
        THEN Ok(WithValue(r.arg.s, r.arg.v, CanBeSeparated(d)), r.called)
    ELSE r

\* the match on derived.process(arg, get_next_arg) of a CanBeSeparated(d) or
\* CanBeConcatenated(d) descriptor: r is what the derived descriptor returned
promote(info, r) ==
    LET s == info.s
        d == info.disp.d
    IN
    IF r.res = "Err" /\ d = None
        THEN IF Rejects(info.create, <<>>) THEN Err(r.called)
             ELSE Ok(WithValue(s, create(info.create, <<>>), Concatenated(d)), r.called)
    ELSE IF r.res = "Ok" /\ r.arg.kind = "WithValue" /\ r.arg.disp.tag = "Concatenated"
        THEN Ok(WithValue(r.arg.s, r.arg.v, CanBeSeparated(r.arg.disp.d)), r.called)
    ELSE IF r.res = "Ok" /\ r.arg.kind = "WithValue" /\ r.arg.disp.tag = "Separated"
        THEN Ok(WithValue(r.arg.s, r.arg.v, CanBeConcatenated(d)), r.called)
    ELSE r

\* process(self, arg, get_next_arg); next is what get_next_arg() would return,
\* dbg whether debug assertions are compiled in.  `called` records whether
\* get_next_arg was called, i.e. whether the next token was taken.
RECURSIVE process(_, _, _, _)
process(info, arg, next, dbg) ==
    LET s == info.s
        d == info.disp.d
    IN
    IF info.kind = "Flag" THEN
        IF dbg /\ s # arg THEN Panic(FALSE)
        ELSE Ok(Flag(s, create(info.create, <<>>)), FALSE)
    ELSE IF info.disp.tag = "Separated" THEN
        IF dbg /\ s # arg THEN Panic(FALSE)
        ELSE IF next # None
             THEN IF Rejects(info.create, next[1]) THEN Err(TRUE)
                  ELSE Ok(WithValue(s, create(info.create, next[1]), Separated), TRUE)
             ELSE Err(TRUE)
    ELSE IF info.disp.tag = "Concatenated" THEN
        LET len0 == Len(s)
            len == IF d # None THEN len0 + 1 ELSE len0
        IN
        \* debug_assert_eq!(&arg[..len], s): the slice itself panics when short
        IF dbg /\ (len0 > Len(arg) \/ SubSeq(arg, 1, len0) # s) THEN Panic(FALSE)
        \* debug_assert_eq!(arg.as_bytes()[len], d): the index panics when out of range
        ELSE IF dbg /\ d # None /\ (len0 >= Len(arg) \/ arg[len0 + 1] # d[1]) THEN Panic(FALSE)
        \* arg[len..]
        ELSE IF len > Len(arg) THEN Panic(FALSE)
        ELSE IF Rejects(info.create, SliceFrom(arg, len)) THEN Err(FALSE)
        ELSE Ok(WithValue(s, create(info.create, SliceFrom(arg, len)), Concatenated(d)), FALSE)
    ELSE
        \* CanBeSeparated(d) | CanBeConcatenated(d)
        LET derived == IF arg = s
                       THEN ArgInfoTakeArg(s, info.create, Separated)
                       ELSE ArgInfoTakeArg(s, info.create, Concatenated(d))
        IN promote(info, process(derived, arg, next, dbg))

-----------------------------------------------------------------------------
(* Searching *)

\* bsearch(key, items, cmp): None, or Some(i) with i the 1-based position in
\* `items` of the element the returned reference points to
RECURSIVE bsearch(_, _)
bsearch(key, items) ==
    IF items = <<>> THEN None
    ELSE
        LET middle == Len(items) \div 2
            c == cmp(items[middle + 1], key)
        IN
        IF c = "Equal" THEN
            LET found_after ==
                    IF Len(items) = 1 THEN None
                    ELSE bsearch(key, SubSeq(items, middle + 2, Len(items)))
            IN IF found_after # None
               THEN Some(found_after[1] + middle + 1)
               ELSE Some(middle + 1)
        ELSE IF c = "Greater" THEN bsearch(key, SubSeq(items, 1, middle))
        ELSE
            LET r == bsearch(key, SubSeq(items, middle + 2, Len(items)))
            IN IF r # None THEN Some(r[1] + middle + 1) ELSE None

\* a reference into a table: the layer and the position in it
Ref(layer, idx) == [layer |-> layer, idx |-> idx]
Deref(table, r) == table[r.layer][r.idx]

\* impl SearchableArgInfo for &[ArgInfo<T>]
search_slice(items, key, layer) ==
    LET r == bsearch(key, items)
    IN IF r = None THEN None ELSE Some(Ref(layer, r[1]))

\* the pair search with the first layer winning when the spellings are equal
search_pair_first(table, key) ==
    LET a == search_slice(table[1], key, 1)
        b == search_slice(table[2], key, 2)
    IN
    IF a = None /\ b = None THEN None
    ELSE IF b = None THEN a
    ELSE IF a = None THEN b
    ELSE IF StrCmp(flag_str(Deref(table, a[1])), flag_str(Deref(table, b[1]))) \in {"Greater", "Equal"}
         THEN a
         ELSE b

\* impl SearchableArgInfo for (&[ArgInfo<T>], &[ArgInfo<T>])
search_pair(table, key) ==
    LET a == search_slice(table[1], key, 1)
        b == search_slice(table[2], key, 2)
    IN
    IF a = None /\ b = None THEN None
    ELSE IF b = None THEN a
    ELSE IF a = None THEN b
    ELSE IF StrCmp(flag_str(Deref(table, a[1])), flag_str(Deref(table, b[1]))) = "Greater"
         THEN a
         ELSE b

search(table, key) ==
    IF Len(table) = 1 THEN search_slice(table[1], key, 1) ELSE search_pair(table, key)

\* check accepting two adjacent descriptors with the same spelling
check_slice_nonstrict(items) ==
    \A i \in 1..(Len(items) - 1) :
        StrCmp(flag_str(items[i]), flag_str(items[i + 1])) \in {"Less", "Equal"}

\* SearchableArgInfo::check, as a predicate: TRUE iff no assertion fails
check_slice(items) ==
    \A i \in 1..(Len(items) - 1) : StrCmp(flag_str(items[i]), flag_str(items[i + 1])) = "Less"

check(table) == \A l \in 1..Len(table) : check_slice(table[l])

-----------------------------------------------------------------------------
(* Input domains *)

Dash == <<45>>

\* flag spellings of the stream parser's and the layered tables
Names == { <<45>>, <<45, 97>> }
\* flag spellings of the single-slice tables handed to search
SearchNames == { <<45>>, <<45, 61>>, <<45, 97>>, <<45, 97, 97>> }
Delimiters == { None, Some(61) }

Dispositions ==
    {Separated}
    \cup {CanBeConcatenated(d) : d \in Delimiters}
    \cup {CanBeSeparated(d) : d \in Delimiters}
    \cup {Concatenated(d) : d \in Delimiters}

Descriptors(name) ==
    {ArgInfoFlag(name, "FooFlag")}
    \cup {ArgInfoTakeArg(name, "Foo", disp) : disp \in Dispositions}

\* what may follow a spelling inside one token
Suffixes == { <<>>, <<61>>, <<97>>, <<61, 97>>, <<45>>, <<255>> }
Positionals == { <<>>, <<97>>, <<255>> }
TokensOf(names) == {n \o x : n \in names, x \in Suffixes} \cup Positionals
\* the stream parser's input tokens: each spelling alone, followed by the
\* delimiter, by the delimiter and a value, by a byte below the delimiter and
\* by a byte that is not UTF-8; the empty token and a positional one
Tokens ==
    { <<45>>, <<45, 97>>,
      <<45, 61>>, <<45, 97, 61>>,
      <<45, 61, 97>>, <<45, 97, 61, 97>>,
      <<45, 45>>, <<45, 255>>,
      <<>>, <<97>> }
SearchTokens == TokensOf(SearchNames)

SeqsUpTo(S, n) == UNION {[1..k -> S] : k \in 0..n}

\* the strictly ascending sequences of at most n of the given spellings
NameSeqs(names, n) ==
    {ns \in SeqsUpTo(names, n) :
        \A i \in 1..(Len(ns) - 1) : StrCmp(ns[i], ns[i + 1]) = "Less"}

\* a layer: strictly ascending spellings, each with any kind and disposition
Layers(names, n) ==
    UNION {
        {t \in [1..Len(ns) -> UNION {Descriptors(x) : x \in names}] :
            \A i \in 1..Len(ns) : t[i].s = ns[i]}
        : ns \in NameSeqs(names, n)}

NoCall == [op |-> "none", info |-> ArgInfoFlag(<<>>, "FooFlag"), arg |-> <<>>, next |-> None]
NoRet == [search |-> None, process |-> Err(FALSE)]

\* the emission and the storage variables, in a run that does not use them
NoEmission ==
    /\ iter = [arg |-> Raw(<<>>), emitted |-> 0]
    /\ pulled = <<>>
    /\ normalized = <<>>
\* no mock process made
NoMock ==
    /\ creator = <<>>
    /\ threads = <<>>
    /\ commands = <<>>
    /\ queued = <<>>
    /\ invoked = {}

NoStorage ==
    /\ bucket = <<>>
    /\ written = <<>>
    /\ cache = <<>>
    /\ s3cache = <<>>
    /\ writers = <<>>
    /\ put = <<>>

-----------------------------------------------------------------------------
(* The stream parser *)

\* ArgsIter::new over a checked table and a token sequence
Init ==
    /\ debug \in BOOLEAN
    /\ arg_info \in {<<l>> : l \in Layers(Names, Cardinality(Names))}
    /\ input \in SeqsUpTo(Tokens, MaxArgs)
    /\ arguments = input
    /\ results = <<>>
    /\ consumed = <<>>
    /\ pc = "run"
    /\ call = NoCall
    /\ ret = NoRet
    /\ NoEmission
    /\ NoStorage
    /\ NoMock

\* the classification with the two kinds exchanged
classify_swapped(arg, s) ==
    IF starts_with(s, Dash) THEN Raw(arg) ELSE UnknownFlag(arg)

\* the None arm of ArgsIter::next: the token no descriptor was found for
classify(arg, s) ==
    IF starts_with(s, Dash) THEN UnknownFlag(arg) ELSE Raw(arg)

\* a pull whose get_next_arg never has a token to give
Pull_no_next(table, arg, rest, dbg) ==
    LET s == to_string_lossy(arg)
        i == search(table, s)
    IN
    IF i # None
    THEN process(Deref(table, i[1]), s, None, dbg)
    ELSE Ok(classify(arg, s), FALSE)

\* what one pull of ArgsIter::next returns for the first token `arg` of the
\* remaining input `rest` (after arg)
Pull(table, arg, rest, dbg) ==
    LET s == to_string_lossy(arg)
        i == search(table, s)
    IN
    IF i # None
    THEN process(Deref(table, i[1]), s, IF rest = <<>> THEN None ELSE Some(Head(rest)), dbg)
    ELSE Ok(classify(arg, s), FALSE)

\* tokens a pull takes from the iterator: the token itself, and the next one
\* when get_next_arg was called and the iterator had one
Taken(r, rest) == IF r.called /\ rest # <<>> THEN 2 ELSE 1

\* a parser that, once it has returned an Err item, returns None
ArgsIter_next_fused ==
    /\ pc = "run"
    /\ \/ /\ (arguments = <<>> \/ \E k \in 1..Len(results) : results[k].res = "Err")
          /\ pc' = "done"
          /\ UNCHANGED <<arguments, results, consumed>>
       \/ /\ arguments # <<>>
          /\ \A k \in 1..Len(results) : results[k].res # "Err"
          /\ LET arg == Head(arguments)
                 rest == Tail(arguments)
                 r == Pull(arg_info, arg, rest, debug)
                 n == Taken(r, rest)
             IN
             /\ arguments' = SubSeq(arguments, n + 1, Len(arguments))
             /\ IF r.res = "Panic"
                THEN /\ pc' = "panic"
                     /\ UNCHANGED <<results, consumed>>
                ELSE /\ pc' = pc
                     /\ results' = Append(results, [res |-> r.res, arg |-> r.arg])
                     /\ consumed' = Append(consumed, n)
    /\ UNCHANGED <<debug, arg_info, input, call, ret, emit_vars, s3_vars, mock_vars>>

ArgsIter_next ==
    /\ pc = "run"
    /\ \/ /\ arguments = <<>>
          /\ pc' = "done"
          /\ UNCHANGED <<arguments, results, consumed>>
       \/ /\ arguments # <<>>
          /\ LET arg == Head(arguments)
                 rest == Tail(arguments)
                 r == Pull(arg_info, arg, rest, debug)
                 n == Taken(r, rest)
             IN
             /\ arguments' = SubSeq(arguments, n + 1, Len(arguments))
             /\ IF r.res = "Panic"
                THEN /\ pc' = "panic"
                     /\ UNCHANGED <<results, consumed>>
                ELSE /\ pc' = pc
                     /\ results' = Append(results, [res |-> r.res, arg |-> r.arg])
                     /\ consumed' = Append(consumed, n)
    /\ UNCHANGED <<debug, arg_info, input, call, ret, emit_vars, s3_vars, mock_vars>>

Next == ArgsIter_next

Spec == Init /\ [][Next]_vars

\* the layer with every value converter replaced by the one that can fail
StrictLayer(l) ==
    [i \in 1..Len(l) |->
        IF l[i].kind = "TakeArg" THEN [l[i] EXCEPT !.create = "FooStrict"] ELSE l[i]]

\* input tokens of the parser whose converters can fail: the spellings, with
\* and without the delimiter before the value "a", and a positional token
FailTokens ==
    { <<45>>, <<45, 97>>, <<45, 61, 97>>, <<45, 97, 61, 97>>, <<45, 61>>, <<97>> }

\* ArgsIter::new over a checked table whose converters can return Err
InitFail ==
    /\ debug \in BOOLEAN
    /\ arg_info \in {<<StrictLayer(l)>> : l \in Layers(Names, Cardinality(Names))}
    /\ input \in SeqsUpTo(FailTokens, MaxArgs)
    /\ arguments = input
    /\ results = <<>>
    /\ consumed = <<>>
    /\ pc = "run"
    /\ call = NoCall
    /\ ret = NoRet
    /\ NoEmission
    /\ NoStorage
    /\ NoMock

SpecFail == InitFail /\ [][Next]_vars

-----------------------------------------------------------------------------
(* Construction of the stream parser over any table *)

\* descriptors of the tables ArgsIter::new is handed, in any order
NewDescriptors ==
    {ArgInfoFlag(n, "FooFlag") : n \in SearchNames}
    \cup {ArgInfoTakeArg(Dash, "Foo", CanBeSeparated(None))}

\* most descriptors in each layer of a layered table handed to ArgsIter::new
MaxLayer == 2

InitNew ==
    /\ debug \in BOOLEAN
    /\ arg_info \in {<<l>> : l \in SeqsUpTo(NewDescriptors, MaxTable)}
                    \cup {<<a, b>> : a \in SeqsUpTo(NewDescriptors, MaxLayer),
                                     b \in SeqsUpTo(NewDescriptors, MaxLayer)}
    /\ input = <<>>
    /\ arguments = <<>>
    /\ results = <<>>
    /\ consumed = <<>>
    /\ pc = "new"
    /\ call = NoCall
    /\ ret = NoRet
    /\ NoEmission
    /\ NoStorage
    /\ NoMock

\* ArgsIter::new(arguments, arg_info): debug_assert!(arg_info.check()) is
\* compiled in debug builds only
ArgsIter_new ==
    /\ pc = "new"
    /\ pc' = IF debug /\ ~check(arg_info) THEN "panic" ELSE "run"
    /\ arguments' = input
    /\ UNCHANGED <<debug, arg_info, input, results, consumed, call, ret,
                   emit_vars, s3_vars, mock_vars>>

NextNew == ArgsIter_new

SpecNew == InitNew /\ [][NextNew]_vars

-----------------------------------------------------------------------------
(* Normalization and emission *)

\* enum NormalizedDisposition
NormalizedDispositions == {"Separated", "Concatenated"}

\* normalize forgetting the delimiter recorded in the CanBe variant
normalize_no_delimiter(a, disposition) ==
    IF a.kind = "WithValue" /\ a.disp.tag \in {"CanBeConcatenated", "CanBeSeparated"}
    THEN WithValue(a.s, a.v,
                   IF disposition = "Separated" THEN Separated ELSE Concatenated(None))
    ELSE a

\* normalize that, asked for Concatenated, exchanges the two CanBe variants
normalize_exchange(a, disposition) ==
    IF a.kind = "WithValue" /\ a.disp.tag \in {"CanBeConcatenated", "CanBeSeparated"}
    THEN WithValue(a.s, a.v,
                   IF disposition = "Separated" THEN Separated
                   ELSE IF a.disp.tag = "CanBeConcatenated"
                        THEN CanBeSeparated(a.disp.d)
                        ELSE CanBeConcatenated(a.disp.d))
    ELSE a

\* Argument::normalize(self, disposition), disposition "Separated" | "Concatenated"
normalize(a, disposition) ==
    IF a.kind = "WithValue" /\ a.disp.tag \in {"CanBeConcatenated", "CanBeSeparated"}
    THEN WithValue(a.s, a.v,
                   IF disposition = "Separated" THEN Separated ELSE Concatenated(a.disp.d))
    ELSE a

\* IntoIter::next that leaves the delimiter out of a concatenated token
IntoIter_next_nodelim(a, emitted) ==
    IF a.kind \in {"Raw", "UnknownFlag", "Flag"} THEN
        IF emitted = 0 THEN Some(a.s) ELSE None
    ELSE IF emitted = 0 /\ a.disp.tag \in {"CanBeSeparated", "Concatenated"} THEN
        Some(a.s \o into_arg(a.v))
    ELSE IF emitted = 0 /\ a.disp.tag \in {"Separated", "CanBeConcatenated"} THEN
        Some(a.s)
    ELSE IF emitted = 1 /\ a.disp.tag \in {"Separated", "CanBeConcatenated"} THEN
        Some(into_arg(a.v))
    ELSE None

\* IntoIter::next that does not look at `emitted` for a flag
IntoIter_next_endless(a, emitted) ==
    IF a.kind = "Flag" THEN Some(a.s)
    ELSE IF a.kind \in {"Raw", "UnknownFlag"} THEN
        IF emitted = 0 THEN Some(a.s) ELSE None
    ELSE IF emitted = 0 /\ a.disp.tag \in {"CanBeSeparated", "Concatenated"} THEN
        Some(a.s \o a.disp.d \o into_arg(a.v))
    ELSE IF emitted = 0 /\ a.disp.tag \in {"Separated", "CanBeConcatenated"} THEN
        Some(a.s)
    ELSE IF emitted = 1 /\ a.disp.tag \in {"Separated", "CanBeConcatenated"} THEN
        Some(into_arg(a.v))
    ELSE None

\* IntoIter::next: the token returned when `emitted` tokens were returned
\* before.  The delimiters are ASCII, so from_utf8(vec![d]) is always Ok.
IntoIter_next(a, emitted) ==
    IF a.kind \in {"Raw", "UnknownFlag", "Flag"} THEN
        IF emitted = 0 THEN Some(a.s) ELSE None
    ELSE IF emitted = 0 /\ a.disp.tag \in {"CanBeSeparated", "Concatenated"} THEN
        Some(a.s \o a.disp.d \o into_arg(a.v))
    ELSE IF emitted = 0 /\ a.disp.tag \in {"Separated", "CanBeConcatenated"} THEN
        Some(a.s)
    ELSE IF emitted = 1 /\ a.disp.tag \in {"Separated", "CanBeConcatenated"} THEN
        Some(into_arg(a.v))
    ELSE None

\* pulling an IntoIter to exhaustion, from the state IntoIter { arg, emitted }
RECURSIVE IntoIter_collect(_, _)
IntoIter_collect(a, emitted) ==
    LET r == IntoIter_next(a, emitted)
    IN IF r = None THEN <<>> ELSE <<r[1]>> \o IntoIter_collect(a, emitted + 1)

\* Argument::into_iter().collect()
into_iter(a) == IntoIter_collect(a, 0)

\* the values a parsed argument carries
Values == { <<>>, <<97>>, <<45, 97>>, <<255>> }

\* the parsed arguments normalize and into_iter are called on
EmitArgs ==
    {Raw(t) : t \in {<<>>, <<97>>, <<255>>}}
    \cup {UnknownFlag(t) : t \in {<<45, 45>>, <<45, 255>>}}
    \cup {Flag(n, create("FooFlag", <<>>)) : n \in Names}
    \cup {WithValue(n, create(c, v), disp) :
            n \in Names, c \in {"Foo", "FooPath"}, v \in Values, disp \in Dispositions}

InitEmit ==
    /\ debug \in BOOLEAN
    /\ arg_info = <<(<<>>)>>
    /\ input = <<>>
    /\ arguments = <<>>
    /\ results = <<>>
    /\ consumed = <<>>
    /\ pc = "parsed"
    /\ call = NoCall
    /\ ret = NoRet
    /\ iter \in {[arg |-> a, emitted |-> 0] : a \in EmitArgs}
    /\ pulled = <<>>
    /\ normalized = <<>>
    /\ NoStorage
    /\ NoMock

\* a = a.normalize(disposition)
Argument_normalize ==
    /\ pc = "parsed"
    /\ Len(normalized) < MaxNormalize
    /\ \E disposition \in NormalizedDispositions :
          LET a == normalize(iter.arg, disposition)
          IN /\ iter' = [iter EXCEPT !.arg = a]
             /\ normalized' = Append(normalized,
                    [disposition |-> disposition, self |-> iter.arg, result |-> a])
    /\ UNCHANGED <<debug, arg_info, input, arguments, results, consumed, pc, call, ret,
                   pulled, s3_vars, mock_vars>>

\* a.into_iter(): IntoIter { arg: self, emitted: 0 }
Argument_into_iter ==
    /\ pc = "parsed"
    /\ iter' = [arg |-> iter.arg, emitted |-> 0]
    /\ pc' = "iter"
    /\ UNCHANGED <<debug, arg_info, input, arguments, results, consumed, call, ret,
                   pulled, normalized, s3_vars, mock_vars>>

\* one call of IntoIter::next
IntoIter_Iterator_next ==
    /\ pc = "iter"
    /\ Len(pulled) < MaxPulls
    /\ LET result == IntoIter_next(iter.arg, iter.emitted)
       IN /\ iter' = [iter EXCEPT !.emitted = IF result # None THEN @ + 1 ELSE @]
          /\ pulled' = Append(pulled, result)
    /\ UNCHANGED <<debug, arg_info, input, arguments, results, consumed, pc, call, ret,
                   normalized, s3_vars, mock_vars>>

NextEmit == Argument_normalize \/ Argument_into_iter \/ IntoIter_Iterator_next

SpecEmit == InitEmit /\ [][NextEmit]_vars

-----------------------------------------------------------------------------
(* Unit-level calls of search and of process *)

\* the &str keys search is called with
Keys(tokens) == {to_string_lossy(t) : t \in tokens}

InitSearch ==
    /\ debug \in BOOLEAN
    /\ \/ /\ arg_info \in {<<l>> : l \in Layers(SearchNames, MaxTable)}
          /\ call \in {[NoCall EXCEPT !.op = "search", !.arg = k] : k \in Keys(SearchTokens)}
       \/ /\ arg_info \in {<<a, b>> : a \in Layers(Names, Cardinality(Names)),
                                      b \in Layers(Names, Cardinality(Names))}
          /\ call \in {[NoCall EXCEPT !.op = "search", !.arg = k] : k \in Keys(Tokens)}
    /\ input = <<>>
    /\ arguments = <<>>
    /\ results = <<>>
    /\ consumed = <<>>
    /\ pc = "call"
    /\ ret = NoRet
    /\ NoEmission
    /\ NoStorage
    /\ NoMock

search_call ==
    /\ pc = "call"
    /\ call.op = "search"
    /\ ret' = [ret EXCEPT !.search = search(arg_info, call.arg)]
    /\ pc' = "returned"
    /\ UNCHANGED <<debug, arg_info, input, arguments, results, consumed, call,
                   emit_vars, s3_vars, mock_vars>>

NextSearch == search_call

SpecSearch == InitSearch /\ [][NextSearch]_vars

\* descriptors process is called on directly: either converter
ProcessInfos ==
    UNION {Descriptors(n) : n \in Names}
    \cup {ArgInfoTakeArg(n, "FooPath", disp) : n \in Names, disp \in Dispositions}

InitProcess ==
    /\ debug \in BOOLEAN
    /\ arg_info = <<(<<>>)>>
    /\ call \in {[op |-> "process", info |-> i, arg |-> a, next |-> n] :
                    i \in ProcessInfos, a \in Keys(Tokens),
                    n \in {None} \cup {Some(t) : t \in Tokens}}
    /\ input = <<>>
    /\ arguments = <<>>
    /\ results = <<>>
    /\ consumed = <<>>
    /\ pc = "call"
    /\ ret = NoRet
    /\ NoEmission
    /\ NoStorage
    /\ NoMock

process_call ==
    /\ pc = "call"
    /\ call.op = "process"
    /\ ret' = [ret EXCEPT !.process = process(call.info, call.arg, call.next, debug)]
    /\ pc' = "returned"
    /\ UNCHANGED <<debug, arg_info, input, arguments, results, consumed, call,
                   emit_vars, s3_vars, mock_vars>>

NextProcess == process_call

SpecProcess == InitProcess /\ [][NextProcess]_vars

-----------------------------------------------------------------------------
(* The S3 storage adapter, src/cache/s3.rs *)

\* normalize_key keeping one character only of the key's tail
normalize_key_short(key) ==
    <<key[1], 47, key[2], 47, key[3], 47>> \o SubSeq(key, 4, 4)

\* format!("{}/{}/{}/{}", &key[0..1], &key[1..2], &key[2..3], &key[3..]),
\* for an ASCII key of at least three characters (47 is '/')
normalize_key(key) ==
    <<key[1], 47, key[2], 47, key[3], 47>> \o SubSeq(key, 4, Len(key))

\* the keys the adapter is called with: ASCII, four characters or more, some
\* with the separator '/' in them (keys are not validated)
S3Keys ==
    { <<97, 97, 97, 97>>, <<97, 47, 97, 97>>, <<97, 97, 97, 97, 97>> }

\* the contents a caller writes to a CacheWrite, as the finished cache entry
Blobs == {1, 2}
\* the finished cache entry of a CacheWrite nothing was written to
EmptyEntry == 0
\* the bytes of an object that is not a cache entry
Garbage == 9

\* enum Cache
Hit(body) == [cache |-> "Hit", body |-> Some(body)]
Miss == [cache |-> "Miss", body |-> None]
Error == [cache |-> "Error", body |-> None]

\* CacheRead::from(Cursor(body)).map(Cache::Hit).unwrap_or_else(Cache::Error):
\* a Hit when the bytes read as a cache entry
CacheRead_from(body) == IF body \in Blobs \cup {EmptyEntry} THEN Hit(body) ELSE Error

\* CacheWrite::new(io::Cursor::new(vec!())): the in-memory writer
CursorWrite(data) == [writer |-> "Cursor", data |-> data]
\* a CacheWrite over a file, made by another storage
FileWrite == [writer |-> "File", data |-> EmptyEntry]

\* the callers of the adapter, each holding at most one CacheWrite
Callers == {"c1", "c2"}

\* a put that leaves the one object in the bucket
put_object_only(objects, path, data) == [p \in {path} |-> data]

\* the bucket with the object at path replaced by data
put_object(objects, path, data) ==
    [p \in (DOMAIN objects) \cup {path} |-> IF p = path THEN data ELSE objects[p]]

\* get reporting a failure of the backend as Cache::Error
get_failure_is_error(objects, k, ok) ==
    LET key == normalize_key(k)
    IN IF ok /\ key \in DOMAIN objects THEN CacheRead_from(objects[key]) ELSE Error

\* what S3Cache::get(k) returns over the stored objects; ok is whether the
\* request reaches the backend and the answer comes back (get_object is Err
\* for an object that is not there as for any other failure)
get(objects, k, ok) ==
    LET key == normalize_key(k)
    IN IF ok /\ key \in DOMAIN objects THEN CacheRead_from(objects[key]) ELSE Miss

\* what start_put and finish_put record of a call
PutRecord(op, entry, backend, sent, result) ==
    [op |-> op, entry |-> entry, backend |-> backend, sent |-> sent, result |-> result]

\* S3Cache::new(region, bucket) over a bucket that is empty or holds one
\* object that is not a cache entry
InitS3 ==
    /\ debug \in BOOLEAN
    /\ arg_info = <<(<<>>)>>
    /\ input = <<>>
    /\ arguments = <<>>
    /\ results = <<>>
    /\ consumed = <<>>
    /\ pc = "s3"
    /\ call = NoCall
    /\ ret = NoRet
    /\ NoEmission
    /\ bucket \in {<<>>} \cup {put_object(<<>>, normalize_key(k), Garbage) : k \in S3Keys}
    /\ written = <<>>
    /\ cache = <<>>
    /\ s3cache = [region |-> "us-east-1", bucket |-> "bucket"]
    /\ writers = [c \in Callers |-> None]
    /\ put = <<>>
    /\ NoMock

\* S3Cache::get(key)
S3Cache_get ==
    /\ pc = "s3"
    /\ \E k \in S3Keys, ok \in BOOLEAN :
          cache' = [key |-> k, path |-> normalize_key(k), fault |-> ~ok,
                    result |-> get(bucket, k, ok)]
    /\ put' = <<>>
    /\ UNCHANGED <<debug, arg_info, input, arguments, results, consumed, pc, call, ret,
                   emit_vars, mock_vars, bucket, written, s3cache, writers>>

\* start_put writing an empty object for the key
S3Cache_start_put_eager ==
    /\ pc = "s3"
    /\ \E c \in Callers, k \in S3Keys :
          /\ (normalize_key(k) \in DOMAIN bucket \/ Cardinality(DOMAIN bucket) < MaxObjects)
          /\ writers' = [writers EXCEPT ![c] = Some(CursorWrite(EmptyEntry))]
          /\ bucket' = put_object(bucket, normalize_key(k), EmptyEntry)
          /\ put' = PutRecord("start_put", None, "none", None, Some(CursorWrite(EmptyEntry)))
    /\ cache' = <<>>
    /\ UNCHANGED <<debug, arg_info, input, arguments, results, consumed, pc, call, ret,
                   emit_vars, mock_vars, written, s3cache>>

\* S3Cache::start_put(_key): Ok(CacheWrite::new(io::Cursor::new(vec!())))
S3Cache_start_put ==
    /\ pc = "s3"
    /\ \E c \in Callers, k \in S3Keys :
          /\ writers' = [writers EXCEPT ![c] = Some(CursorWrite(EmptyEntry))]
          /\ put' = PutRecord("start_put", None, "none", None, Some(CursorWrite(EmptyEntry)))
    /\ cache' = <<>>
    /\ UNCHANGED <<debug, arg_info, input, arguments, results, consumed, pc, call, ret,
                   emit_vars, mock_vars, bucket, written, s3cache>>

\* the caller writes the contents of the cache entry to the CacheWrite it holds
CacheWrite_write ==
    /\ pc = "s3"
    /\ \E c \in Callers, data \in Blobs :
          /\ writers[c] = Some(CursorWrite(EmptyEntry))
          /\ writers' = [writers EXCEPT ![c] = Some(CursorWrite(data))]
    /\ UNCHANGED <<debug, arg_info, input, arguments, results, consumed, pc, call, ret,
                   emit_vars, mock_vars, bucket, written, cache, s3cache, put>>

\* S3Cache::finish_put(key, entry), the entry being the CacheWrite the caller
\* holds or one over a file; finish_ok is whether entry.finish() succeeds, ok
\* whether put_object does
S3Cache_finish_put ==
    /\ pc = "s3"
    /\ \E c \in Callers, k \in S3Keys, finish_ok \in BOOLEAN, ok \in BOOLEAN :
        \E entry \in {FileWrite} \cup {writers[c][i] : i \in 1..Len(writers[c])} :
          LET key == normalize_key(k)
          IN /\ writers' = IF entry = FileWrite THEN writers
                            ELSE [writers EXCEPT ![c] = None]
             /\ IF ~finish_ok
                THEN /\ put' = PutRecord("finish_put", Some(entry), "none", None, "Err")
                     /\ UNCHANGED <<bucket, written>>
                ELSE IF entry.writer = "File"
                THEN /\ put' = PutRecord("finish_put", Some(entry), "none", None, "Err")
                     /\ UNCHANGED <<bucket, written>>
                ELSE IF ~ok
                THEN /\ put' = PutRecord("finish_put", Some(entry), "Err",
                                         Some(entry.data), "Err")
                     /\ UNCHANGED <<bucket, written>>
                ELSE /\ (key \in DOMAIN bucket \/ Cardinality(DOMAIN bucket) < MaxObjects)
                     /\ bucket' = put_object(bucket, key, entry.data)
                     /\ written' = put_object(written, k, [path |-> key, data |-> entry.data])
                     /\ put' = PutRecord("finish_put", Some(entry), "Ok",
                                         Some(entry.data), "Ok")
    /\ cache' = <<>>
    /\ UNCHANGED <<debug, arg_info, input, arguments, results, consumed, pc, call, ret,
                   emit_vars, mock_vars, s3cache>>

NextS3 == S3Cache_get \/ S3Cache_start_put \/ CacheWrite_write \/ S3Cache_finish_put

SpecS3 == InitS3 /\ [][NextS3]_vars

(* The mock process factory, src/mock_command.rs *)

\* results queued over the life of a creator
MaxQueued == 2

\* the threads holding a clone of the Arc<Mutex<MockCommandCreator>>
Threads == {"t1", "t2", "t3"}

\* io::Result: Ok(v) and Err(e)
IoOk(v) == [ok |-> TRUE, val |-> Some(v), err |-> None]
IoErr(e) == [ok |-> FALSE, val |-> None, err |-> Some(e)]
\* the call did not return: it panicked
Panicked == [ok |-> FALSE, val |-> None, err |-> Some("panicked")]

\* MockChild::new(status, stdout, stderr)
MockChild_new(status, stdout, stderr) ==
    [stdin |-> Some(<<>>), stdout |-> Some(stdout), stderr |-> Some(stderr),
     wait_result |-> Some(IoOk(status))]

\* MockChild::with_error(err)
MockChild_with_error(e) ==
    [stdin |-> None, stdout |-> None, stderr |-> None, wait_result |-> Some(IoErr(e))]

\* process::Output
Output(status, stdout, stderr) == [status |-> status, stdout |-> stdout, stderr |-> stderr]

\* the children a test builds (111 is 'o', 101 is 'e')
MockChildren ==
    { MockChild_new(0, <<111>>, <<101>>), MockChild_new(1, <<>>, <<101, 101>>),
      MockChild_with_error("EIO") }

\* the results a test queues
SpawnResults == {IoErr("ENOENT")} \cup {IoOk(c) : c \in MockChildren}

\* enum ChildOrCall; id is the position of the result among those queued, and
\* res what the child is or what the closure returns when called
Child(id, res) == [id |-> id, kind |-> "Child", res |-> res]
Call(id, res) == [id |-> id, kind |-> "Call", res |-> res]

\* MockCommand { child: Some(c) }, with what was observed of it
MockCommand(c) ==
    [item |-> c, child |-> Some(c), built |-> FALSE, ret |-> None, respawned |-> FALSE,
     proc |-> None, waited |-> None, output |-> None]

\* MockCommandCreator::new behind Arc::new(Mutex::new(..)), no thread started
InitMock ==
    /\ debug \in BOOLEAN
    /\ arg_info = <<(<<>>)>>
    /\ input = <<>>
    /\ arguments = <<>>
    /\ results = <<>>
    /\ consumed = <<>>
    /\ pc = "mock"
    /\ call = NoCall
    /\ ret = NoRet
    /\ NoEmission
    /\ NoStorage
    /\ creator = [children |-> <<>>, locked |-> FALSE, poisoned |-> FALSE]
    /\ threads = [t \in Threads |-> "ready"]
    /\ commands = <<>>
    /\ queued = <<>>
    /\ invoked = {}

\* new_command_sync taking the lock whoever holds it
new_command_sync_unlocked(t) ==
    /\ pc = "mock"
    /\ threads[t] = "ready"
    /\ IF creator.poisoned
       THEN /\ threads' = [threads EXCEPT ![t] = "panicked_lock_new_command"]
            /\ UNCHANGED creator
       ELSE /\ creator' = [creator EXCEPT !.locked = TRUE]
            /\ threads' = [threads EXCEPT ![t] = "new_command"]
    /\ UNCHANGED <<debug, arg_info, input, arguments, results, consumed, pc, call, ret,
                   emit_vars, s3_vars, commands, queued, invoked>>

\* new_command_sync over a mutex that forgets it was poisoned
new_command_sync_unpoisoned(t) ==
    /\ pc = "mock"
    /\ threads[t] = "ready"
    /\ ~creator.locked
    /\ creator' = [creator EXCEPT !.locked = TRUE]
    /\ threads' = [threads EXCEPT ![t] = "new_command"]
    /\ UNCHANGED <<debug, arg_info, input, arguments, results, consumed, pc, call, ret,
                   emit_vars, s3_vars, commands, queued, invoked>>

\* new_command_sync, self.lock().unwrap(): the thread waits for the mutex, and
\* panics when the mutex is poisoned
new_command_sync(t) ==
    /\ pc = "mock"
    /\ threads[t] = "ready"
    /\ ~creator.locked
    /\ IF creator.poisoned
       THEN /\ threads' = [threads EXCEPT ![t] = "panicked_lock_new_command"]
            /\ UNCHANGED creator
       ELSE /\ creator' = [creator EXCEPT !.locked = TRUE]
            /\ threads' = [threads EXCEPT ![t] = "new_command"]
    /\ UNCHANGED <<debug, arg_info, input, arguments, results, consumed, pc, call, ret,
                   emit_vars, s3_vars, commands, queued, invoked>>

\* new_command handing out the result queued last
new_command_lifo(t) ==
    /\ pc = "mock"
    /\ threads[t] = "new_command"
    /\ IF Len(creator.children) > 0
       THEN /\ commands' = Append(commands,
                                  MockCommand(creator.children[Len(creator.children)]))
            /\ creator' = [creator EXCEPT
                              !.children = SubSeq(creator.children, 1,
                                                  Len(creator.children) - 1),
                              !.locked = FALSE]
            /\ threads' = [threads EXCEPT ![t] = "ready"]
       ELSE /\ threads' = [threads EXCEPT ![t] = "panicked_new_command"]
            /\ creator' = [creator EXCEPT !.locked = FALSE, !.poisoned = TRUE]
            /\ UNCHANGED commands
    /\ UNCHANGED <<debug, arg_info, input, arguments, results, consumed, pc, call, ret,
                   emit_vars, s3_vars, queued, invoked>>

\* MockCommandCreator::new_command inside new_command_sync: the assertion on
\* the queue, children.remove(0), and the guard dropped at the end of the
\* statement or by the panic, which poisons the mutex
new_command(t) ==
    /\ pc = "mock"
    /\ threads[t] = "new_command"
    /\ IF Len(creator.children) > 0
       THEN /\ commands' = Append(commands, MockCommand(Head(creator.children)))
            /\ creator' = [creator EXCEPT !.children = Tail(creator.children),
                                          !.locked = FALSE]
            /\ threads' = [threads EXCEPT ![t] = "ready"]
       ELSE /\ threads' = [threads EXCEPT ![t] = "panicked_new_command"]
            /\ creator' = [creator EXCEPT !.locked = FALSE, !.poisoned = TRUE]
            /\ UNCHANGED commands
    /\ UNCHANGED <<debug, arg_info, input, arguments, results, consumed, pc, call, ret,
                   emit_vars, s3_vars, queued, invoked>>

\* a thread locks the creator to queue a result: with lock().unwrap() it
\* panics on a poisoned mutex, with the guard taken out of the PoisonError
\* (recover) it goes on
next_command(t) ==
    /\ pc = "mock"
    /\ threads[t] = "ready"
    /\ ~creator.locked
    /\ Len(queued) < MaxQueued
    /\ \E recover \in BOOLEAN :
          IF creator.poisoned /\ ~recover
          THEN /\ threads' = [threads EXCEPT ![t] = "panicked_lock_next_command"]
               /\ UNCHANGED creator
          ELSE /\ creator' = [creator EXCEPT !.locked = TRUE]
               /\ threads' = [threads EXCEPT ![t] = "next_command"]
    /\ UNCHANGED <<debug, arg_info, input, arguments, results, consumed, pc, call, ret,
                   emit_vars, s3_vars, commands, queued, invoked>>

\* the creator with c pushed, the guard dropped
push(c) == [creator EXCEPT !.children = Append(creator.children, c), !.locked = FALSE]

\* MockCommandCreator::next_command_spawns(child)
next_command_spawns(t) ==
    /\ pc = "mock"
    /\ threads[t] = "next_command"
    /\ \E res \in SpawnResults :
          /\ creator' = push(Child(Len(queued) + 1, res))
          /\ queued' = Append(queued, Child(Len(queued) + 1, res))
    /\ threads' = [threads EXCEPT ![t] = "ready"]
    /\ UNCHANGED <<debug, arg_info, input, arguments, results, consumed, pc, call, ret,
                   emit_vars, s3_vars, commands, invoked>>

\* MockCommandCreator::next_command_calls(call), call returning res
next_command_calls(t) ==
    /\ pc = "mock"
    /\ threads[t] = "next_command"
    /\ \E res \in SpawnResults :
          /\ creator' = push(Call(Len(queued) + 1, res))
          /\ queued' = Append(queued, Call(Len(queued) + 1, res))
    /\ threads' = [threads EXCEPT ![t] = "ready"]
    /\ UNCHANGED <<debug, arg_info, input, arguments, results, consumed, pc, call, ret,
                   emit_vars, s3_vars, commands, invoked>>

\* the methods of RunCommand that configure the command
BuilderCalls == {"arg", "args", "current_dir", "stdin", "stdout", "stderr"}

\* MockCommand::arg, args, current_dir, stdin, stdout, stderr: return self
MockCommand_build(i) ==
    /\ pc = "mock"
    /\ \E method \in BuilderCalls :
          commands' = [commands EXCEPT ![i].built = TRUE]
    /\ UNCHANGED <<debug, arg_info, input, arguments, results, consumed, pc, call, ret,
                   emit_vars, s3_vars, creator, threads, queued, invoked>>

\* MockCommand::spawn: self.child.take().unwrap(), the child itself or what
\* the closure returns; a second spawn panics
MockCommand_spawn(i) ==
    /\ pc = "mock"
    /\ IF commands[i].child # None
       THEN LET c == commands[i].child[1]
            IN /\ commands' = [commands EXCEPT
                                 ![i].child = None,
                                 ![i].ret = Some(c.res),
                                 ![i].proc = IF c.res.ok THEN c.res.val ELSE None]
               /\ invoked' = IF c.kind = "Call" THEN invoked \cup {c.id} ELSE invoked
       ELSE /\ commands' = [commands EXCEPT ![i].respawned = TRUE]
            /\ UNCHANGED invoked
    /\ UNCHANGED <<debug, arg_info, input, arguments, results, consumed, pc, call, ret,
                   emit_vars, s3_vars, creator, threads, queued>>

NextMock ==
    \/ \E t \in Threads : new_command_sync(t)
    \/ \E t \in Threads : new_command(t)
    \/ \E t \in Threads : next_command(t)
    \/ \E t \in Threads : next_command_spawns(t)
    \/ \E t \in Threads : next_command_calls(t)
    \/ \E i \in 1..Len(commands) : MockCommand_spawn(i)

SpecMock == InitMock /\ [][NextMock]_vars

\* the io::Result<Output> of wait_with_output on child c, or the panic of
\* unwrap when wait has taken the result
wait_with_output(c) ==
    IF c.wait_result = None THEN Panicked
    ELSE IF c.wait_result[1].ok
    THEN IoOk(Output(c.wait_result[1].val[1],
                     IF c.stdout # None THEN c.stdout[1] ELSE <<>>,
                     IF c.stderr # None THEN c.stderr[1] ELSE <<>>))
    ELSE c.wait_result[1]

\* one MockCommand as new_command makes it, of any result a test queues
InitChild ==
    /\ debug \in BOOLEAN
    /\ arg_info = <<(<<>>)>>
    /\ input = <<>>
    /\ arguments = <<>>
    /\ results = <<>>
    /\ consumed = <<>>
    /\ pc = "mock"
    /\ call = NoCall
    /\ ret = NoRet
    /\ NoEmission
    /\ NoStorage
    /\ creator = [children |-> <<>>, locked |-> FALSE, poisoned |-> FALSE]
    /\ threads = [t \in Threads |-> "ready"]
    /\ \E res \in SpawnResults : \E c \in {Child(1, res), Call(1, res)} :
          /\ commands = <<MockCommand(c)>>
          /\ queued = <<c>>
    /\ invoked = {}

\* MockChild::take_stdin
MockChild_take_stdin(i) ==
    /\ pc = "mock"
    /\ commands[i].proc # None
    /\ commands' = [commands EXCEPT ![i].proc[1].stdin = None]
    /\ UNCHANGED <<debug, arg_info, input, arguments, results, consumed, pc, call, ret,
                   emit_vars, s3_vars, creator, threads, queued, invoked>>

\* MockChild::take_stdout
MockChild_take_stdout(i) ==
    /\ pc = "mock"
    /\ commands[i].proc # None
    /\ commands' = [commands EXCEPT ![i].proc[1].stdout = None]
    /\ UNCHANGED <<debug, arg_info, input, arguments, results, consumed, pc, call, ret,
                   emit_vars, s3_vars, creator, threads, queued, invoked>>

\* MockChild::take_stderr
MockChild_take_stderr(i) ==
    /\ pc = "mock"
    /\ commands[i].proc # None
    /\ commands' = [commands EXCEPT ![i].proc[1].stderr = None]
    /\ UNCHANGED <<debug, arg_info, input, arguments, results, consumed, pc, call, ret,
                   emit_vars, s3_vars, creator, threads, queued, invoked>>

\* MockChild::wait: self.wait_result.take().unwrap()
MockChild_wait(i) ==
    /\ pc = "mock"
    /\ commands[i].proc # None
    /\ LET c == commands[i].proc[1]
       IN commands' = [commands EXCEPT
                         ![i].waited = IF c.wait_result # None THEN c.wait_result
                                       ELSE Some(Panicked),
                         ![i].proc[1].wait_result = None]
    /\ UNCHANGED <<debug, arg_info, input, arguments, results, consumed, pc, call, ret,
                   emit_vars, s3_vars, creator, threads, queued, invoked>>

\* MockChild::wait_with_output(self): the child is consumed
MockChild_wait_with_output(i) ==
    /\ pc = "mock"
    /\ commands[i].proc # None
    /\ commands' = [commands EXCEPT
                      ![i].output = Some(wait_with_output(commands[i].proc[1])),
                      ![i].proc = None]
    /\ UNCHANGED <<debug, arg_info, input, arguments, results, consumed, pc, call, ret,
                   emit_vars, s3_vars, creator, threads, queued, invoked>>

NextChild ==
    \/ \E i \in 1..Len(commands) : MockCommand_build(i)
    \/ \E i \in 1..Len(commands) : MockCommand_spawn(i)
    \/ \E i \in 1..Len(commands) : MockChild_take_stdin(i)
    \/ \E i \in 1..Len(commands) : MockChild_take_stdout(i)
    \/ \E i \in 1..Len(commands) : MockChild_take_stderr(i)
    \/ \E i \in 1..Len(commands) : MockChild_wait(i)
    \/ \E i \in 1..Len(commands) : MockChild_wait_with_output(i)

SpecChild == InitChild /\ [][NextChild]_vars

-----------------------------------------------------------------------------
(* Reading the parser's history *)

RECURSIVE SumSeq(_)
SumSeq(q) == IF q = <<>> THEN 0 ELSE Head(q) + SumSeq(Tail(q))

\* position in `input` of the first token of the k-th returned item
Start(k) == 1 + SumSeq(SubSeq(consumed, 1, k - 1))
ItemToken(k) == input[Start(k)]
ItemNext(k) == IF Start(k) < Len(input) THEN Some(input[Start(k) + 1]) ELSE None

\* number of tokens the iterator has yielded
Yielded == Len(input) - Len(arguments)

AllOk == \A k \in 1..Len(results) : results[k].res = "Ok"
AllUtf8(tokens) == \A k \in 1..Len(tokens) : IsUtf8(tokens[k])

\* the tokens of the successive arguments, one after the other
RECURSIVE EmitAll(_)
EmitAll(args) ==
    IF args = <<>> THEN <<>> ELSE into_iter(Head(args)) \o EmitAll(Tail(args))

Arguments(rs) == [k \in 1..Len(rs) |-> rs[k].arg]

\* ArgsIter over `args` pulled to exhaustion; a pull that panics ends the
\* sequence with a "Panic" entry
RECURSIVE ArgsIter_collect(_, _, _)
ArgsIter_collect(table, args, dbg) ==
    IF args = <<>> THEN <<>>
    ELSE
        LET r == Pull(table, Head(args), Tail(args), dbg)
            n == Taken(r, Tail(args))
        IN IF r.res = "Panic"
           THEN <<[res |-> "Panic", arg |-> r.arg]>>
           ELSE <<[res |-> r.res, arg |-> r.arg]>>
                \o ArgsIter_collect(table, SubSeq(args, n + 1, Len(args)), dbg)

-----------------------------------------------------------------------------
(* Claims *)

\* C1: when the parser has gone through a whole input of valid UTF-8 tokens
\* and returned no Err item, the tokens emitted by into_iter for the
\* successive results, one after the other and with no normalize applied,
\* are exactly the input tokens.
RoundTrip ==
    (pc = "done" /\ AllOk /\ AllUtf8(input))
        => EmitAll(Arguments(results)) = input

\* a finished parse of two tokens into two items, one of them a value
\* concatenated after a delimiter
RoundTripWitness ==
    /\ pc = "done" /\ AllOk /\ AllUtf8(input)
    /\ Len(results) = 2
    /\ \E k \in 1..2 :
            /\ results[k].arg.kind = "WithValue"
            /\ results[k].arg.disp = CanBeSeparated(Some(61))
            /\ results[k].arg.v.data # <<>>

\* C2: no pull of ArgsIter::next panics, whatever the table and the input.
NeverPanics == pc # "panic"

\* C4: every token the iterator has yielded belongs to exactly one returned
\* item, each item took one or two tokens, and a finished parse has taken
\* the whole input.
EveryTokenInOneItem ==
    (pc \in {"run", "done", "panic"}) =>
        /\ Len(consumed) = Len(results)
        /\ \A k \in 1..Len(consumed) : consumed[k] \in {1, 2}
        /\ Yielded = SumSeq(consumed)
        /\ (pc = "done" => arguments = <<>>)

\* the descriptor the table returns for the k-th item's token, as an Option
Matched(k) ==
    LET i == search(arg_info, to_string_lossy(ItemToken(k)))
    IN IF i = None THEN None ELSE Some(Deref(arg_info, i[1]))

\* positions of the layer's descriptors that compare Equal to the key
Matches(items, key) == {i \in 1..Len(items) : cmp(items[i], key) = "Equal"}

\* C3: for a strictly ascending table, search returns the descriptor with
\* the longest spelling among those that compare Equal to the token, and
\* None only when none does.
SearchFindsLongest ==
    (pc = "returned" /\ call.op = "search" /\ Len(arg_info) = 1) =>
        LET items == arg_info[1]
            M == Matches(items, call.arg)
            r == ret.search
        IN IF M = {}
           THEN r = None
           ELSE /\ r # None
                /\ r[1].idx \in M
                /\ \A j \in M : Len(items[j].s) <= Len(items[r[1].idx].s)

\* the same items as a parse: kind, descriptor name and value, position by position
SameMeaning(rs1, rs2) ==
    /\ Len(rs1) = Len(rs2)
    /\ \A k \in 1..Len(rs1) :
            /\ rs1[k].res = "Ok" /\ rs2[k].res = "Ok"
            /\ rs1[k].arg.kind = rs2[k].arg.kind
            /\ rs1[k].arg.s = rs2[k].arg.s
            /\ rs1[k].arg.v = rs2[k].arg.v

Normalized(rs, p) == [k \in 1..Len(rs) |-> normalize(rs[k].arg, p)]

\* C5: after a parse without error, normalizing every result with one
\* preference, emitting the tokens and parsing them again with the same
\* table gives the same kinds, names and values, position by position.
NormalizeReparse ==
    (pc = "done" /\ AllOk /\ AllUtf8(input)) =>
        \A p \in {"Separated", "Concatenated"} :
            SameMeaning(
                ArgsIter_collect(arg_info, EmitAll(Normalized(results, p)), debug),
                results)

\* the token is the spelling n followed by the delimiter d and a value
ConcatenatedForm(t, n, d) == starts_with(t, n \o d) /\ Len(t) > Len(n)

\* C6: a CanBeConcatenated(d) descriptor with spelling n, when no other
\* descriptor of the table matches the token, is accepted both as n followed
\* by a value token and as the single token n + d + value: the item is
\* WithValue(n, value, _).
CanBeConcatenatedBothForms ==
    \A k \in 1..Len(results) :
        LET t == ItemToken(k)
            items == arg_info[1]
        IN \A i \in 1..Len(items) :
            LET D == items[i]
                n == D.s
                d == D.disp.d
            IN (/\ D.kind = "TakeArg" /\ D.disp.tag = "CanBeConcatenated"
                /\ IsUtf8(t)
                /\ Matches(items, t) \subseteq {i})
               =>
               /\ (t = n /\ ItemNext(k) # None) =>
                     /\ results[k].res = "Ok"
                     /\ results[k].arg.kind = "WithValue"
                     /\ results[k].arg.s = n
                     /\ results[k].arg.v = create(D.create, ItemNext(k)[1])
               /\ ConcatenatedForm(t, n, d) =>
                     /\ results[k].res = "Ok"
                     /\ results[k].arg.kind = "WithValue"
                     /\ results[k].arg.s = n
                     /\ results[k].arg.v = create(D.create, SliceFrom(t, Len(n \o d)))

\* C7: for a pair of layers (A, B), search returns None iff neither layer's
\* search finds a descriptor and the single find if only one does; when both
\* do it returns the one with the lexicographically greater spelling, B's
\* when the spellings are equal; that spelling is the longer of the two, and
\* it is the same when the layers are swapped.
LayeredOverride ==
    (pc = "returned" /\ call.op = "search" /\ Len(arg_info) = 2) =>
        LET key == call.arg
            a == search_slice(arg_info[1], key, 1)
            b == search_slice(arg_info[2], key, 2)
            r == ret.search
            swapped == search(<<arg_info[2], arg_info[1]>>, key)
        IN /\ (r = None) <=> (a = None /\ b = None)
           /\ (a # None /\ b = None) => r = a
           /\ (a = None /\ b # None) => r = b
           /\ (a # None /\ b # None) =>
                LET sa == flag_str(Deref(arg_info, a[1]))
                    sb == flag_str(Deref(arg_info, b[1]))
                    sr == flag_str(Deref(arg_info, r[1]))
                IN /\ (StrCmp(sa, sb) = "Greater") => r = a
                   /\ (StrCmp(sa, sb) = "Less") => r = b
                   /\ (sa = sb) => r = b
                   /\ Len(sr) >= Len(sa) /\ Len(sr) >= Len(sb)
           /\ (r = None) <=> (swapped = None)
           /\ (r # None) =>
                flag_str(Deref(arg_info, r[1]))
                    = flag_str(Deref(<<arg_info[2], arg_info[1]>>, swapped[1]))

\* both layers find a descriptor, with the same spelling, and B's is returned
LayeredOverrideWitness ==
    /\ pc = "returned" /\ call.op = "search" /\ Len(arg_info) = 2
    /\ search_slice(arg_info[1], call.arg, 1) # None
    /\ search_slice(arg_info[2], call.arg, 2) # None
    /\ ret.search # None
    /\ ret.search[1].layer = 2
    /\ flag_str(Deref(arg_info, search_slice(arg_info[1], call.arg, 1)[1]))
            = flag_str(Deref(arg_info, ret.search[1]))
    /\ Deref(arg_info, search_slice(arg_info[1], call.arg, 1)[1])
            # Deref(arg_info, ret.search[1])

\* C8: process on a CanBeSeparated(d) or CanBeConcatenated(d) descriptor:
\* token = spelling and a next token gives WithValue(name, convert(next),
\* CanBeConcatenated(d)) and takes the next token; spelling + d + rest gives
\* WithValue(name, convert(rest), CanBeSeparated(d)) and leaves the next
\* token; token = spelling with no next token gives WithValue(name,
\* convert(""), Concatenated(None)) when d is None and
\* Err(UnexpectedEndOfArgs) when d is Some; the result is never Separated.
Promotion ==
    (/\ pc = "returned" /\ call.op = "process"
     /\ call.info.kind = "TakeArg"
     /\ call.info.disp.tag \in {"CanBeSeparated", "CanBeConcatenated"}) =>
        LET s == call.info.s
            d == call.info.disp.d
            c == call.info.create
            arg == call.arg
            next == call.next
            r == ret.process
        IN /\ (arg = s /\ next # None) =>
                r = Ok(WithValue(s, create(c, next[1]), CanBeConcatenated(d)), TRUE)
           /\ ConcatenatedForm(arg, s, d) =>
                r = Ok(WithValue(s, create(c, SliceFrom(arg, Len(s \o d))),
                                 CanBeSeparated(d)), FALSE)
           /\ (arg = s /\ next = None /\ d = None) =>
                r = Ok(WithValue(s, create(c, <<>>), Concatenated(None)), TRUE)
           /\ (arg = s /\ next = None /\ d # None) => r.res = "Err"
           /\ (r.res = "Ok") => r.arg.disp.tag # "Separated"

\* process has returned for a CanBeConcatenated('=') descriptor handed its
\* spelling, the delimiter and a non-empty value in one token
PromotionWitness ==
    /\ pc = "returned" /\ call.op = "process"
    /\ call.info.kind = "TakeArg"
    /\ call.info.disp = CanBeConcatenated(Some(61))
    /\ ConcatenatedForm(call.arg, call.info.s, Some(61))
    /\ Len(call.arg) > Len(call.info.s) + 1
    /\ ret.process.res = "Ok"
    /\ ret.process.arg.disp = CanBeSeparated(Some(61))

\* C9: when the descriptor the table returns for a token is a Separated
\* take-value descriptor, the token is its spelling and the parser takes the
\* following token, whatever it is, as the value: WithValue(name,
\* convert(next), Separated); with no following token the item is
\* Err(UnexpectedEndOfArgs).
SeparatedTakesNext ==
    \A k \in 1..Len(results) :
        LET m == Matched(k)
        IN (m # None /\ m[1].kind = "TakeArg" /\ m[1].disp.tag = "Separated") =>
            /\ to_string_lossy(ItemToken(k)) = m[1].s
            /\ (ItemNext(k) # None) =>
                    /\ results[k] = [res |-> "Ok",
                                      arg |-> WithValue(m[1].s,
                                                        create(m[1].create, ItemNext(k)[1]),
                                                        Separated)]
                    /\ consumed[k] = 2
            /\ (ItemNext(k) = None) =>
                    /\ results[k].res = "Err"
                    /\ consumed[k] = 1

\* a Separated descriptor has taken as its value a token that is itself the
\* spelling of a descriptor of the table
SeparatedTakesNextWitness ==
    /\ pc = "done"
    /\ Len(results) = 1
    /\ consumed = <<2>>
    /\ results[1].res = "Ok"
    /\ results[1].arg.disp = Separated
    /\ \E i \in 1..Len(arg_info[1]) : arg_info[1][i].s = input[2]

\* C10: for a Concatenated(Some d) or CanBeSeparated(Some d) descriptor with
\* spelling n, cmp(t) is Equal iff t = n or t is n followed by d; for t = n
\* followed by a byte X # d it is Less when X < d and Greater when X > d; and
\* when no descriptor of the table matches such a token the parser returns
\* UnknownFlag(t).
DelimiterComparison ==
    LET items == arg_info[1]
        Delimited == {i \in 1..Len(items) :
                        /\ items[i].kind = "TakeArg"
                        /\ items[i].disp.tag \in {"Concatenated", "CanBeSeparated"}
                        /\ items[i].disp.d # None}
        Longer(key, n) == starts_with(key, n) /\ Len(key) > Len(n)
    IN
    /\ \A j \in 1..Len(input) : \A i \in Delimited :
            LET key == to_string_lossy(input[j])
                n == items[i].s
                d == items[i].disp.d[1]
                c == cmp(items[i], key)
            IN /\ (c = "Equal") <=> (key = n \/ (Longer(key, n) /\ key[Len(n) + 1] = d))
               /\ (Longer(key, n) /\ key[Len(n) + 1] < d) => c = "Less"
               /\ (Longer(key, n) /\ key[Len(n) + 1] > d) => c = "Greater"
    /\ \A k \in 1..Len(results) : \A i \in Delimited :
            LET t == ItemToken(k)
                key == to_string_lossy(t)
                n == items[i].s
                d == items[i].disp.d[1]
            IN (/\ Longer(key, n) /\ key[Len(n) + 1] # d
                /\ Matches(items, key) = {})
               => results[k] = [res |-> "Ok", arg |-> UnknownFlag(t)]

\* the parser has returned UnknownFlag for a token that is the spelling of a
\* CanBeSeparated('=') descriptor followed by a byte other than '='
DelimiterComparisonWitness ==
    /\ pc = "done"
    /\ Len(results) = 1
    /\ results[1].arg.kind = "UnknownFlag"
    /\ \E i \in 1..Len(arg_info[1]) :
            /\ arg_info[1][i].disp = CanBeSeparated(Some(61))
            /\ starts_with(input[1], arg_info[1][i].s)
            /\ Len(input[1]) > Len(arg_info[1][i].s)
            /\ input[1][Len(arg_info[1][i].s) + 1] = 97

\* the positions of the table's Concatenated(None) descriptors
ConcatenatedNone(items) ==
    {i \in 1..Len(items) :
        items[i].kind = "TakeArg" /\ items[i].disp = Concatenated(None)}

\* C11: a Concatenated(None) descriptor with spelling n compares Equal to
\* every token that starts with n; when it is the descriptor the table
\* returns for a token t, the pull takes that one token only and returns
\* WithValue(n, convert(t[len(n)..]), Concatenated(None)), the value being
\* empty when t = n.
ConcatenatedNoneTakesOneToken ==
    /\ \A j \in 1..Len(input) : \A i \in ConcatenatedNone(arg_info[1]) :
            starts_with(input[j], arg_info[1][i].s)
                => cmp(arg_info[1][i], to_string_lossy(input[j])) = "Equal"
    /\ \A k \in 1..Len(results) :
            LET m == Matched(k)
                t == ItemToken(k)
            IN (m # None /\ m[1].kind = "TakeArg" /\ m[1].disp = Concatenated(None)) =>
                /\ starts_with(t, m[1].s)
                /\ consumed[k] = 1
                /\ results[k] = [res |-> "Ok",
                                  arg |-> WithValue(m[1].s,
                                                    create(m[1].create, SliceFrom(t, Len(m[1].s))),
                                                    Concatenated(None))]

\* the tokens the claim gives for a parsed argument
EmissionShape(a) ==
    IF a.kind \in {"Raw", "UnknownFlag", "Flag"} THEN <<a.s>>
    ELSE IF a.disp.tag \in {"Concatenated", "CanBeSeparated"}
         THEN <<a.s \o (IF a.disp.d # None THEN <<a.disp.d[1]>> ELSE <<>>) \o a.v.data>>
         ELSE <<a.s, a.v.data>>

\* C12: the successive pulls of an IntoIter return the tokens of the shape
\* above, one per pull and in order - one token for Raw, UnknownFlag and
\* Flag, the single token name + delimiter + value for Concatenated(d) and
\* CanBeSeparated(d), the two tokens name, value for Separated and
\* CanBeConcatenated(_) - and None on every pull after them.
EmissionShapeHolds ==
    (pc = "iter") =>
        LET shape == EmissionShape(iter.arg)
        IN /\ Len(shape) \in {1, 2}
           /\ iter.emitted <= Len(shape)
           /\ \A i \in 1..Len(pulled) :
                pulled[i] = IF i <= Len(shape) THEN Some(shape[i]) ELSE None

\* an IntoIter over a WithValue with CanBeConcatenated('=') has returned its
\* two tokens and then None twice
EmissionShapeWitness ==
    /\ pc = "iter"
    /\ iter.arg.kind = "WithValue"
    /\ iter.arg.disp = CanBeConcatenated(Some(61))
    /\ iter.arg.v.data # <<>>
    /\ Len(pulled) = 4
    /\ pulled[2] = Some(iter.arg.v.data)
    /\ pulled[3] = None /\ pulled[4] = None

\* C13: a call of normalize on WithValue(s, v, CanBeConcatenated(d)) or
\* WithValue(s, v, CanBeSeparated(d)) returns WithValue(s, v, Separated) for
\* the preference Separated and WithValue(s, v, Concatenated(d)) for the
\* preference Concatenated; on every other argument it returns the argument.
NormalizeFrame ==
    \A i \in 1..Len(normalized) :
        LET n == normalized[i]
            a == n.self
        IN IF a.kind = "WithValue" /\ a.disp.tag \in {"CanBeConcatenated", "CanBeSeparated"}
           THEN /\ n.result.kind = "WithValue"
                /\ n.result.s = a.s
                /\ n.result.v = a.v
                /\ (n.disposition = "Separated") => n.result.disp = Separated
                /\ (n.disposition = "Concatenated") => n.result.disp = Concatenated(a.disp.d)
           ELSE n.result = a

\* normalize with the preference Concatenated was called on a WithValue with
\* CanBeConcatenated('=')
NormalizeFrameWitness ==
    /\ Len(normalized) >= 1
    /\ normalized[1].disposition = "Concatenated"
    /\ normalized[1].self.kind = "WithValue"
    /\ normalized[1].self.disp = CanBeConcatenated(Some(61))
    /\ normalized[1].result.disp = Concatenated(Some(61))

\* C14: the result of a first normalize carries no CanBe disposition, and a
\* second normalize, with the same or with the other preference, returns
\* what the first returned.
NormalizeIdempotent ==
    /\ \A i \in 1..Len(normalized) :
            normalized[i].result.disp.tag \notin {"CanBeConcatenated", "CanBeSeparated"}
    /\ \A i \in 2..Len(normalized) :
            /\ normalized[i].self = normalized[i - 1].result
            /\ normalized[i].result = normalized[i - 1].result

\* normalize was called twice with the same preference on what was a
\* WithValue with CanBeSeparated(None), and once more changed nothing
NormalizeIdempotentWitness ==
    /\ Len(normalized) = 2
    /\ normalized[1].disposition = normalized[2].disposition
    /\ normalized[1].self.kind = "WithValue"
    /\ normalized[1].self.disp = CanBeSeparated(None)
    /\ normalized[1].result # normalized[1].self
    /\ normalized[2].result = normalized[1].result

\* C15: when the table returns no descriptor for the first token t of an
\* item, the pull took that one token and returned UnknownFlag(t) if t
\* starts with '-' and Raw(t) otherwise, t being the token as it was given;
\* so the token of every UnknownFlag starts with '-' and that of every Raw
\* does not.
UnknownClassification ==
    \A k \in 1..Len(results) :
        LET t == ItemToken(k)
            r == results[k]
        IN /\ (Matched(k) = None) =>
                /\ consumed[k] = 1
                /\ r = [res |-> "Ok",
                         arg |-> IF t # <<>> /\ t[1] = 45 THEN UnknownFlag(t) ELSE Raw(t)]
           /\ (r.res = "Ok" /\ r.arg.kind = "UnknownFlag") => starts_with(r.arg.s, Dash)
           /\ (r.res = "Ok" /\ r.arg.kind = "Raw") => ~starts_with(r.arg.s, Dash)

\* a token that is not valid UTF-8 and starts with '-' was returned as
\* UnknownFlag with its own bytes, and a positional token as Raw, by a parser
\* whose table is not empty
UnknownClassificationWitness ==
    /\ pc = "done"
    /\ arg_info[1] # <<>>
    /\ Len(results) = 2
    /\ results[1] = [res |-> "Ok", arg |-> UnknownFlag(<<45, 255>>)]
    /\ results[2] = [res |-> "Ok", arg |-> Raw(<<97>>)]

\* the item a pull returns, as it is recorded in `results`
Item(r) == [res |-> r.res, arg |-> r.arg]

\* C16: the k-th item is what a pull returns for the block of tokens that
\* follows the blocks of the items before it, and that block is one or two
\* tokens; a pull takes a second token only when the descriptor the table
\* returns is Separated or a CanBe variant and the token is its spelling; and
\* every token the iterator has yielded is in the block of a returned item.
OrderingAndLookahead ==
    (pc \in {"run", "done", "panic"}) =>
        /\ Len(consumed) = Len(results)
        /\ \A k \in 1..Len(results) :
                LET m == Matched(k)
                    block == SubSeq(input, Start(k), Start(k) + consumed[k] - 1)
                IN /\ consumed[k] \in {1, 2}
                   /\ Start(k) + consumed[k] - 1 <= Len(input)
                   /\ results[k] = Item(Pull(arg_info, Head(block), Tail(block), debug))
                   /\ (consumed[k] = 2) =>
                        /\ m # None
                        /\ m[1].kind = "TakeArg"
                        /\ m[1].disp.tag \in {"Separated", "CanBeSeparated", "CanBeConcatenated"}
                        /\ to_string_lossy(ItemToken(k)) = m[1].s
        /\ Yielded = SumSeq(consumed)
        /\ arguments = SubSeq(input, Yielded + 1, Len(input))

\* C17: for every item WithValue of a matched take-value descriptor, the
\* value the converter was given is the whole next token when the pull took
\* two tokens, and otherwise the bytes of the token itself after the
\* spelling and, if the descriptor has one, the delimiter.
ConverterTransparency ==
    \A k \in 1..Len(results) :
        LET m == Matched(k)
            t == ItemToken(k)
            r == results[k]
        IN (/\ m # None /\ m[1].kind = "TakeArg"
            /\ r.res = "Ok" /\ r.arg.kind = "WithValue") =>
            IF consumed[k] = 2
            THEN r.arg.v.data = input[Start(k) + 1]
            ELSE r.arg.v.data =
                    SliceFrom(t, Len(m[1].s) + (IF t # m[1].s /\ m[1].disp.d # None THEN 1 ELSE 0))

\* two adjacent descriptors of the layer whose spellings a, b are not a < b
OutOfOrder(items) ==
    \E i \in 1..(Len(items) - 1) :
        StrCmp(items[i].s, items[i + 1].s) \in {"Greater", "Equal"}

\* C18: in a debug build ArgsIter::new panics iff some layer has two
\* adjacent descriptors whose spellings are out of order or the same, each
\* layer of a layered table being looked at on its own; in a release build
\* it never panics.
TableCheck ==
    (pc # "new") =>
        ((pc = "panic") <=> (debug /\ \E l \in 1..Len(arg_info) : OutOfOrder(arg_info[l])))

\* a debug build accepted a layered table whose first layer has a spelling
\* followed by one it is a prefix of, and whose second layer has one of the
\* first layer's spellings
TableCheckWitness ==
    /\ pc = "run" /\ debug
    /\ Len(arg_info) = 2
    /\ Len(arg_info[1]) = 2 /\ Len(arg_info[2]) >= 1
    /\ starts_with(arg_info[1][2].s, arg_info[1][1].s)
    /\ arg_info[2][1].s = arg_info[1][2].s

\* after an Err item the parser behaves as a new parser over the tokens not
\* yet taken would: the items returned since are the first items of that
\* parser, all of them once the parse has finished
ErrIsLocal ==
    \A k \in 1..Len(results) :
        (results[k].res = "Err") =>
            LET rest == SubSeq(input, Start(k) + consumed[k], Len(input))
                fresh == ArgsIter_collect(arg_info, rest, debug)
                later == SubSeq(results, k + 1, Len(results))
            IN /\ consumed[k] \in {1, 2}
               /\ Len(later) <= Len(fresh)
               /\ \A i \in 1..Len(later) : later[i] = fresh[i]
               /\ (pc = "done") => later = fresh
               /\ (pc = "panic") => fresh[Len(later) + 1].res = "Panic"

\* a pull leaves the items returned before it as they were
EarlierItemsKept ==
    /\ Len(results') >= Len(results)
    /\ \A k \in 1..Len(results) : results'[k] = results[k]

\* C19: an Err item, from a missing value or from the converter, changes
\* nothing but its own item: the items returned before it stay as they were,
\* and the pulls after it return what a new parser over the tokens not yet
\* taken returns, None only when no token is left.
FailureSemantics == []ErrIsLocal /\ [][EarlierItemsKept]_vars

\* the converter refused the value of the first token, the item was Err, and
\* the next pull parsed the second token
FailureSemanticsWitness ==
    /\ pc = "done"
    /\ Len(results) = 2
    /\ consumed = <<1, 1>>
    /\ results[1].res = "Err"
    /\ results[2].res = "Ok"
    /\ results[2].arg.kind = "WithValue"

\* the path k[0]/k[1]/k[2]/k[3..]
KeyPath(k) == <<k[1]>> \o <<47>> \o <<k[2]>> \o <<47>> \o <<k[3]>> \o <<47>>
              \o [i \in 1..(Len(k) - 3) |-> k[i + 3]]

\* C20: finish_put(k, _) and get(k) ask the backend for the path
\* k[0]/k[1]/k[2]/k[3..]; two different keys never have the same path; and a
\* get(k) that follows the successful finish_put(k, data), with no write in
\* between, returns Hit(data) when the backend answers and never a Hit of
\* anything else.
KeyLayout ==
    /\ \A k \in DOMAIN written : written[k].path = KeyPath(k)
    /\ \A k1 \in DOMAIN written : \A k2 \in DOMAIN written :
            (k1 # k2) => written[k1].path # written[k2].path
    /\ (cache # <<>>) =>
            /\ cache.path = KeyPath(cache.key)
            /\ (cache.key \in DOMAIN written) =>
                    cache.result \in {Hit(written[cache.key].data), Miss}
            /\ (cache.key \notin DOMAIN written) => cache.result.cache # "Hit"

\* get returned the data put under its key while the bucket holds another
\* key's object with other data, the two keys having the same first four
\* characters
KeyLayoutWitness ==
    /\ cache # <<>>
    /\ cache.key = <<97, 97, 97, 97, 97>>
    /\ <<97, 97, 97, 97>> \in DOMAIN written
    /\ cache.key \in DOMAIN written
    /\ cache.result = Hit(written[cache.key].data)
    /\ written[<<97, 97, 97, 97>>].data # written[cache.key].data

\* C27: for a strictly ascending table, search called with the spelling of
\* one of its descriptors returns a descriptor with that spelling; and, the
\* table read in ascending order, no descriptor that compares Greater to the
\* key comes before one that compares Less or Equal.
ExactSpellingFound ==
    (pc = "returned" /\ call.op = "search" /\ Len(arg_info) = 1) =>
        LET items == arg_info[1]
            key == call.arg
        IN /\ (\E i \in 1..Len(items) : items[i].s = key) =>
                /\ ret.search # None
                /\ flag_str(Deref(arg_info, ret.search[1])) = key
           /\ \A i \in 1..Len(items) : \A j \in (i + 1)..Len(items) :
                (cmp(items[i], key) = "Greater") => cmp(items[j], key) = "Greater"

\* C21: get returns Miss whenever the call to the backend fails, for an object
\* that is not there as for a transport fault; it returns Error only for an
\* object whose bytes do not read as a cache entry, and Hit, with those bytes,
\* only for one that does; a failure of the backend is never Error nor Hit.
GetOutcome ==
    (pc = "s3" /\ cache # <<>>) =>
        LET present == cache.path \in DOMAIN bucket
            failed == cache.fault \/ ~present
        IN /\ failed => cache.result = Miss
           /\ (cache.result = Miss) => failed
           /\ (cache.result = Error) =>
                  /\ ~failed
                  /\ bucket[cache.path] \notin Blobs \cup {EmptyEntry}
           /\ (cache.result.cache = "Hit") =>
                  /\ ~failed
                  /\ bucket[cache.path] \in Blobs \cup {EmptyEntry}
                  /\ cache.result = Hit(bucket[cache.path])

\* a get has returned Error for an object that is not a cache entry
GetOutcomeWitness ==
    /\ pc = "s3"
    /\ cache # <<>>
    /\ cache.result = Error
    /\ ~cache.fault
    /\ bucket[cache.path] = Garbage

\* what finish_put returned agrees with what the backend answered
FinishPutResult ==
    (pc = "s3" /\ put # <<>> /\ put.op = "finish_put") =>
        /\ (put.result = "Ok") <=> (put.backend = "Ok")
        /\ (put.backend = "Err") => put.result = "Err"
        /\ (put.entry[1].writer = "File") => (put.result = "Err" /\ put.backend = "none")
        /\ (put.backend = "none") <=> (put.sent = None)
        /\ (put.sent # None) => put.sent = Some(put.entry[1].data)
        /\ (put.result = "Ok") =>
              \E k \in DOMAIN written :
                  /\ written[k].data = put.sent[1]
                  /\ bucket[written[k].path] = put.sent[1]

\* what start_put returned is an empty in-memory writer, and the backend was
\* not asked anything
StartPutResult ==
    (pc = "s3" /\ put # <<>> /\ put.op = "start_put") =>
        /\ put.result = Some(CursorWrite(EmptyEntry))
        /\ put.backend = "none"
        /\ put.sent = None

\* the bucket changes in finish_put only, by one object, to the bytes written
\* to the writer the call was handed
BackendChangesInFinishPut ==
    /\ (put' # <<>> /\ put'.op = "start_put") => bucket' = bucket
    /\ (bucket' # bucket) =>
          /\ put' # <<>>
          /\ put'.op = "finish_put"
          /\ put'.backend = "Ok"
          /\ \E path \in DOMAIN bucket' : bucket' = put_object(bucket, path, put'.sent[1])
    /\ \A c \in Callers :
          (writers[c] # None /\ writers'[c] = None) =>
              /\ put' # <<>>
              /\ put'.op = "finish_put"
              /\ put'.entry = writers[c]

\* C22: start_put never contacts nor changes the backend and returns an empty
\* in-memory writer; the object changes only inside finish_put, which sends the
\* bytes written to that writer; finish_put returns an error when the put fails
\* or the entry is not an in-memory writer, and Ok only after the put succeeded.
WriteProtocol ==
    /\ [](FinishPutResult /\ StartPutResult)
    /\ [][BackendChangesInFinishPut]_vars

\* a finish_put has stored the contents a caller wrote to its writer
WriteProtocolWitness ==
    /\ pc = "s3"
    /\ put # <<>>
    /\ put.op = "finish_put"
    /\ put.result = "Ok"
    /\ put.sent = Some(2)
    /\ \E k \in DOMAIN written : bucket[written[k].path] = 2

\* the keys a step stored an object for
KeysPut == {k \in DOMAIN written' : k \notin DOMAIN written \/ written'[k] # written[k]}

\* C23: a finish_put on one key never changes the outcome of a get on another
\* key, and a get changes neither the backend nor the adapter, whose region and
\* bucket are the same after every operation.
KeyIndependence ==
    [][/\ s3cache' = s3cache
       /\ (cache' # <<>>) => (bucket' = bucket /\ written' = written)
       /\ Cardinality(KeysPut) <= 1
       /\ \A k2 \in S3Keys \ KeysPut : \A ok \in BOOLEAN :
              get(bucket', k2, ok) = get(bucket, k2, ok)]_vars

\* a finish_put has stored a second object next to one stored under another key
KeyIndependenceWitness ==
    /\ pc = "s3"
    /\ put # <<>>
    /\ put.result = "Ok"
    /\ \E k1 \in DOMAIN written, k2 \in DOMAIN written :
          /\ k1 # k2
          /\ written[k1].data # written[k2].data
          /\ get(bucket, k1, TRUE) = Hit(written[k1].data)
          /\ get(bucket, k2, TRUE) = Hit(written[k2].data)

\* the commands made so far hold the results queued first, in the order they
\* were queued, and the rest is still queued; a command spawned returned the
\* result it was made with
FifoOrder ==
    (pc = "mock") =>
        /\ Len(commands) <= Len(queued)
        /\ creator.children = SubSeq(queued, Len(commands) + 1, Len(queued))
        /\ \A i \in 1..Len(commands) :
              /\ commands[i].item = queued[i]
              /\ commands[i].child \in {None, Some(queued[i])}
              /\ (commands[i].ret # None) => commands[i].ret = Some(queued[i].res)

\* a new_command call on an empty queue panics and makes no command; on a
\* queue that is not empty it makes the command of the result queued first
NewCommandStep ==
    \A t \in Threads :
        (threads[t] = "new_command" /\ threads'[t] # "new_command") =>
            IF creator.children = <<>>
            THEN /\ threads'[t] = "panicked_new_command"
                 /\ commands' = commands
            ELSE /\ threads'[t] = "ready"
                 /\ commands' = Append(commands, MockCommand(queued[Len(commands) + 1]))

\* C24: the i-th new_command call receives the i-th queued result, each
\* queued result is handed out at most once, the binding is made at
\* new_command time whatever the order of the spawns, and a new_command call
\* on an empty queue panics instead of returning a command.
MockFifo ==
    /\ []FifoOrder
    /\ [][NewCommandStep]_vars

\* two commands hold different results, the second was spawned before the
\* first, and a third call found the queue empty
MockFifoWitness ==
    /\ pc = "mock"
    /\ Len(commands) = 2
    /\ commands[1].item.res # commands[2].item.res
    /\ commands[1].ret = None
    /\ commands[2].ret # None
    /\ \E t \in Threads : threads[t] = "panicked_new_command"

\* the threads inside the inner factory
Inside == {t \in Threads : threads[t] \in {"new_command", "next_command"}}

\* C25: at most one thread is inside the inner factory at any time, and every
\* result queued is in the queue or in one command, never in two and never in
\* none.
MutualExclusion ==
    (pc = "mock") =>
        /\ Cardinality(Inside) <= 1
        /\ creator.locked <=> (Inside # {})
        /\ \A k \in 1..Len(queued) :
              Cardinality({i \in 1..Len(commands) : commands[i].item = queued[k]})
              + Cardinality({j \in 1..Len(creator.children) :
                                creator.children[j] = queued[k]}) = 1

\* a thread is making a command while another is about to call, one command
\* was handed out and a result is queued
MutualExclusionWitness ==
    /\ pc = "mock"
    /\ Len(commands) >= 1
    /\ creator.children # <<>>
    /\ \E t1 \in Threads, t2 \in Threads :
          /\ threads[t1] = "new_command"
          /\ threads[t2] = "ready"

\* the pcs of a thread that panicked
Panics == {"panicked_new_command", "panicked_lock_new_command", "panicked_lock_next_command"}

\* once poisoned the creator has a thread that panicked inside new_command,
\* and none inside it
PoisonedState ==
    (pc = "mock" /\ creator.poisoned) =>
        /\ \E t \in Threads : threads[t] = "panicked_new_command"
        /\ \A t \in Threads : threads[t] # "new_command"

\* the over-pull panics with the mutex held and poisons it for good; no call
\* gets into new_command afterwards, whatever is queued; a call that panics
\* makes no command and removes no queued result
PoisonStep ==
    /\ creator.poisoned =>
          /\ creator'.poisoned
          /\ Len(commands') = Len(commands)
          /\ SubSeq(creator'.children, 1, Len(creator.children)) = creator.children
          /\ \A t \in Threads : threads'[t] # "new_command"
    /\ \A t \in Threads :
          /\ (threads[t] = "new_command" /\ threads'[t] = "panicked_new_command") =>
                /\ creator.locked
                /\ creator'.poisoned
          /\ (threads[t] \notin Panics /\ threads'[t] \in Panics) =>
                /\ Len(commands') = Len(commands)
                /\ creator'.children = creator.children
          /\ (threads[t] \in Panics) => threads'[t] = threads[t]

\* C28: the over-pull panics while the mutex is held, every later
\* new_command_sync call on any clone panics too, even when results were
\* queued in the meantime, and a failed call hands out no command and removes
\* no queued result.
OverPullPoisons ==
    /\ []PoisonedState
    /\ [][PoisonStep]_vars

\* after the over-pull a result was queued, and the two other threads'
\* new_command_sync calls panicked
OverPullPoisonsWitness ==
    /\ pc = "mock"
    /\ creator.poisoned
    /\ creator.children # <<>>
    /\ Cardinality({t \in Threads : threads[t] = "panicked_lock_new_command"}) = 2

\* what wait and wait_with_output are to return for the child a test built
Verbatim(c, waited, output) ==
    IF c.wait_result[1].ok
    THEN /\ (waited # None) => waited = Some(IoOk(c.wait_result[1].val[1]))
         /\ (output # None) =>
               output = Some(IoOk(Output(c.wait_result[1].val[1], c.stdout[1], c.stderr[1])))
    ELSE /\ (waited # None) => waited = Some(IoErr(c.wait_result[1].err[1]))
         /\ (output # None) => output = Some(IoErr(c.wait_result[1].err[1]))

\* C26: spawn returns the queued result unchanged, whatever builder calls were
\* made, a queued closure is called by spawn and not before, and the child of
\* MockChild::new(status, out, err) returns Ok(status) from wait and
\* Ok(Output{status, out, err}) from wait_with_output, the child of
\* MockChild::with_error(e) Err(e) from both.
ResultsVerbatim ==
    (pc = "mock") =>
        \A i \in 1..Len(commands) :
            LET m == commands[i]
            IN /\ (m.ret # None) => m.ret = Some(m.item.res)
               /\ (m.item.kind = "Call") => ((m.item.id \in invoked) <=> (m.ret # None))
               /\ (m.item.kind = "Child") => m.item.id \notin invoked
               /\ m.item.res.ok => Verbatim(m.item.res.val[1], m.waited, m.output)

====
